---- MODULE Spec2Model ----
(***************************************************************************)
(* A model of torrent-go's B-encoding codec and metainfo projection.       *)
(*                                                                         *)
(* Bytes are one-character strings, byte strings are sequences of them.    *)
(* Cursor positions are 0-based as in the Go code: the byte at position i  *)
(* of a buffer is element i+1 of the sequence.                             *)
(*                                                                         *)
(* A []byte has a length and a capacity: indexing is bounded by the        *)
(* length, slicing by the capacity.  A buffer is therefore a record        *)
(* [enc, slack]: enc holds the len(p.enc) bytes of the slice, slack the    *)
(* bytes of the backing array between len and cap.                         *)
(*                                                                         *)
(* Go's int is 64 bits wide; every number of this model stays far below    *)
(* that width, so no arithmetic here wraps.                                *)
(***************************************************************************)
EXTENDS Integers, Sequences, FiniteSets, TLC

VARIABLES
    enc,      \* parser.enc: the B-encoded text handed to the decoder
    slack,    \* bytes of enc's backing array between len(enc) and cap(enc)
    src,      \* the Go value handed to the encoder, NoVal when decoding first
    pc,       \* position of the driver: "value", "ready", "decoded", "encoded",
              \* "projected" (by ParseTorrent), "described" (by ParseMetaInfo)
    op,       \* the operation that produced the current result
    res,      \* the result of the last decoder call: value, cursor, error or panic
    out,      \* the text produced by the last encoder call
    torrent,  \* the result of ParseTorrent: descriptor or error
    metaInfo  \* the result of ParseMetaInfo: descriptor or error

vars == <<enc, slack, src, pc, op, res, out, torrent, metaInfo>>

----------------------------------------------------------------------------
(* Bytes *)

Digits == <<"0", "1", "2", "3", "4", "5", "6", "7", "8", "9">>

IsDigit(c) == \E k \in 1..10 : Digits[k] = c

DigitVal(c) == (CHOOSE k \in 1..10 : Digits[k] = c) - 1

\* The zero byte that os.ReadFile and io.ReadAll leave beyond the data read
NUL == "NUL"

\* fmt.Sprintf("%d", n)
RECURSIVE Itoa(_)
Itoa(n) ==
    IF n < 0 THEN <<"-">> \o Itoa(-n)
    ELSE IF n < 10 THEN <<Digits[n + 1]>>
    ELSE Itoa(n \div 10) \o <<Digits[(n % 10) + 1]>>

\* b.enc[i:j] of Go, bounded by the capacity when j exceeds the length
Mem(b) == b.enc \o b.slack

Slice(b, i, j) == SubSeq(Mem(b), i + 1, j)

LenOf(b) == Len(b.enc)

CapOf(b) == Len(b.enc) + Len(b.slack)

\* bytes.IndexByte(b.enc[i:], c): offset of the first c at or after i, else -1
\* the offset of the last c in b[i:], or -1
IndexByteLast(b, i, c) ==
    LET hits == {j \in 0..(LenOf(b) - i - 1) : b.enc[i + j + 1] = c}
    IN  IF hits = {} THEN -1
        ELSE CHOOSE j \in hits : \A k \in hits : j >= k

IndexByte(b, i, c) ==
    LET hits == {j \in 0..(LenOf(b) - i - 1) : b.enc[i + j + 1] = c}
    IN  IF hits = {} THEN -1
        ELSE CHOOSE j \in hits : \A k \in hits : j <= k

----------------------------------------------------------------------------
(* Generic values: int, string, []any, map[string]any *)

NoVal == [t |-> "nil", v |-> 0]

IntV(n) == [t |-> "int", v |-> n]

StrV(s) == [t |-> "str", v |-> s]

ListV(vals) == [t |-> "list", v |-> vals]

DictV(dict) == [t |-> "dict", v |-> dict]

\* make(map[string]any)
EmptyDict == [k \in {} |-> NoVal]

\* dict[key] = val
MapPut(dict, key, val) ==
    [k \in (DOMAIN dict) \cup {key} |-> IF k = key THEN val ELSE dict[k]]

----------------------------------------------------------------------------
(* Decoder results *)

Ok(val, i) ==
    [st |-> "ok", val |-> val, i |-> i, reason |-> "", context |-> <<>>, pos |-> 0]

\* A Go run-time panic: index or slice bounds out of range
Panic(i) ==
    [st |-> "panic", val |-> NoVal, i |-> i, reason |-> "out of range",
     context |-> <<>>, pos |-> 0]

\* parser.err: the context runs from the cursor to endContext (to the end
\* of the text when endContext is negative), the position is the cursor's
err(b, i, reason, endContext) ==
    LET endc == IF endContext < 0 THEN LenOf(b) ELSE endContext
    IN  IF i > endc \/ endc > CapOf(b) THEN Panic(i)
        ELSE [st |-> "err", val |-> NoVal, i |-> i, reason |-> reason,
              context |-> Slice(b, i, endc), pos |-> i + 1]

\* errDelim reporting the cursor instead of the delimiter's position
errDelimAtCursor(i, delim, start) ==
    [st |-> "err", val |-> NoVal, i |-> i,
     reason |-> "unmatched '" \o delim \o "' delimiter",
     context |-> <<delim>>, pos |-> i + 1]

\* parser.errDelim: the context is the delimiter, the position its own
errDelim(i, delim, start) ==
    [st |-> "err", val |-> NoVal, i |-> i,
     reason |-> "unmatched '" \o delim \o "' delimiter",
     context |-> <<delim>>, pos |-> start + 1]

----------------------------------------------------------------------------
(* Decoder *)

\* fromAscii(b.enc[i:], n): the loop runs from the last byte to the first
RECURSIVE fromAsciiLoop(_, _, _, _, _)
fromAsciiLoop(b, i, k, num, exp) ==
    IF k < 0 THEN [ok |-> TRUE, num |-> num]
    ELSE IF ~IsDigit(b.enc[i + k + 1]) THEN [ok |-> FALSE, num |-> 0]
    ELSE fromAsciiLoop(b, i, k - 1, num + DigitVal(b.enc[i + k + 1]) * exp, exp * 10)

\* fromAscii without exp *= 10: every digit counts as units
RECURSIVE fromAsciiUnscaledLoop(_, _, _, _)
fromAsciiUnscaledLoop(b, i, k, num) ==
    IF k < 0 THEN [ok |-> TRUE, num |-> num]
    ELSE IF ~IsDigit(b.enc[i + k + 1]) THEN [ok |-> FALSE, num |-> 0]
    ELSE fromAsciiUnscaledLoop(b, i, k - 1, num + DigitVal(b.enc[i + k + 1]))

fromAsciiUnscaled(b, i, n) == fromAsciiUnscaledLoop(b, i, n - 1, 0)

fromAscii(b, i, n) == fromAsciiLoop(b, i, n - 1, 0, 1)

\* parser.parseStr at cursor i: <length>:<text>
parseStr(b, i) ==
    IF i > LenOf(b) THEN Panic(i)
    ELSE
    LET colon == IndexByte(b, i, ":")
    IN  IF colon < 0 THEN err(b, i, "invalid string", -1)
        ELSE
        LET n == fromAscii(b, i, colon)
        IN  IF ~n.ok THEN err(b, i, "invalid string length specifier", -1)
            ELSE
            LET j == i + colon + 1
            IN  IF j + n.num > CapOf(b) THEN Panic(j)
                ELSE Ok(StrV(Slice(b, j, j + n.num)), j + n.num)

\* parser.parseInt at cursor i: i<num>e
parseInt(b, i) ==
    IF i >= LenOf(b) THEN Panic(i)
    ELSE IF b.enc[i + 1] # "i" THEN err(b, i, "invalid integer", -1)
    ELSE
    LET end == IndexByte(b, i, "e")
    IN  IF end < 0 THEN errDelim(i, "i", i)
        ELSE
        LET n == fromAscii(b, i + 1, end - 1)
        IN  IF ~n.ok THEN err(b, i, "invalid integer value", i + end + 1)
            ELSE Ok(IntV(n.num), i + end + 1)

RECURSIVE parseVal(_, _), parseList(_, _), parseDict(_, _),
          parseListLoop(_, _, _, _), parseDictLoop(_, _, _, _)

\* the for loop of parseList, entered with the cursor inside the text
parseListLoop(b, start, i, vals) ==
    IF b.enc[i + 1] = "e" THEN Ok(ListV(vals), i + 1)
    ELSE
    LET v == parseVal(b, i)
    IN  IF v.st # "ok" THEN v
        ELSE IF v.i >= LenOf(b) THEN errDelim(v.i, "l", start)
        ELSE parseListLoop(b, start, v.i, Append(vals, v.val))

\* parser.parseList at cursor i: l(<value>)*e
parseList(b, i) ==
    IF i >= LenOf(b) THEN Panic(i)
    ELSE IF b.enc[i + 1] # "l" THEN err(b, i, "invalid list", -1)
    ELSE IF i + 1 >= LenOf(b) THEN errDelim(i + 1, "l", i)
    ELSE parseListLoop(b, i, i + 1, <<>>)

\* the for loop of parseDict, entered with the cursor inside the text
parseDictLoop(b, start, i, dict) ==
    IF b.enc[i + 1] = "e" THEN Ok(DictV(dict), i + 1)
    ELSE
    LET key == parseStr(b, i)
    IN  IF key.st # "ok" THEN key
        ELSE
        LET val == parseVal(b, key.i)
        IN  IF val.st # "ok" THEN val
            ELSE IF val.i >= LenOf(b) THEN errDelim(val.i, "d", start)
            ELSE parseDictLoop(b, start, val.i, MapPut(dict, key.val.v, val.val))

\* parser.parseDict at cursor i: d(<key><value>)*e
parseDict(b, i) ==
    IF i >= LenOf(b) THEN Panic(i)
    ELSE IF b.enc[i + 1] # "d" THEN err(b, i, "invalid dictionary", -1)
    ELSE IF i + 1 >= LenOf(b) THEN errDelim(i + 1, "d", i)
    ELSE parseDictLoop(b, i, i + 1, EmptyDict)

\* parser.parseVal at cursor i: dispatch on the type id character
parseVal(b, i) ==
    IF i >= LenOf(b) THEN Panic(i)
    ELSE IF b.enc[i + 1] = "d" THEN parseDict(b, i)
    ELSE IF b.enc[i + 1] = "l" THEN parseList(b, i)
    ELSE IF b.enc[i + 1] = "i" THEN parseInt(b, i)
    ELSE parseStr(b, i)

----------------------------------------------------------------------------
(* Encoder.  Ranging over a Go map visits the keys in an order the         *)
(* language leaves unspecified, so the encoder of a value is modelled by   *)
(* the set of texts it can produce.                                        *)

\* encodeStr: <length>:<text>
encodeStr(text) == Itoa(Len(text)) \o <<":">> \o text

\* encodeInt: i<num>e
encodeInt(num) == <<"i">> \o Itoa(num) \o <<"e">>

\* every order in which a range over a map with these keys may visit them
RECURSIVE RangeOrders(_)
RangeOrders(keys) ==
    IF keys = {} THEN {<<>>}
    ELSE UNION {{<<k>> \o rest : rest \in RangeOrders(keys \ {k})} : k \in keys}

RECURSIVE encodeVal(_), encodeListFrom(_, _), encodeDictIn(_, _, _)

\* the texts the loop of encodeList can write for vals[k..]
encodeListFrom(vals, k) ==
    IF k > Len(vals) THEN {<<>>}
    ELSE {head \o tail : head \in encodeVal(vals[k]), tail \in encodeListFrom(vals, k + 1)}

\* encodeList: l(<value>)*e
encodeList(vals) == {<<"l">> \o body \o <<"e">> : body \in encodeListFrom(vals, 1)}

\* the texts the loop of encodeDict can write visiting order[k..]
encodeDictIn(dict, order, k) ==
    IF k > Len(order) THEN {<<>>}
    ELSE {encodeStr(order[k]) \o val \o tail :
            val \in encodeVal(dict[order[k]]), tail \in encodeDictIn(dict, order, k + 1)}

\* encodeDict: d(<key><value>)*e, keys in the order the range takes
encodeDict(dict) ==
    UNION {{<<"d">> \o body \o <<"e">> : body \in encodeDictIn(dict, order, 1)} :
            order \in RangeOrders(DOMAIN dict)}

\* encodeVal: dispatch on the dynamic type
encodeVal(val) ==
    IF val.t = "int" THEN {encodeInt(val.v)}
    ELSE IF val.t = "str" THEN {encodeStr(val.v)}
    ELSE IF val.t = "list" THEN encodeList(val.v)
    ELSE encodeDict(val.v)

----------------------------------------------------------------------------
(* Metainfo projection.  mapstructure.Decode(raw, &struct) with its        *)
(* default configuration: a field takes the value of the map key equal to  *)
(* its name or tag, else of a key equal to it under case folding; a field  *)
(* whose key is absent keeps its zero value; keys no field names are       *)
(* ignored; a value of the wrong kind is an error (no weak typing);        *)
(* unexported fields are skipped.                                          *)

\* strings.EqualFold on the letters the model's keys use
ToLower(c) ==
    CASE c = "A" -> "a"
      [] c = "C" -> "c"
      [] c = "F" -> "f"
      [] c = "I" -> "i"
      [] c = "L" -> "l"
      [] c = "N" -> "n"
      [] c = "P" -> "p"
      [] OTHER -> c

EqualFold(a, b) ==
    /\ Len(a) = Len(b)
    /\ \A k \in 1..Len(a) : ToLower(a[k]) = ToLower(b[k])

\* the map key mapstructure reads for a field: the exact name first, then
\* any key equal to it under case folding
FieldKeys(raw, name) ==
    IF name \in DOMAIN raw THEN {name}
    ELSE {k \in DOMAIN raw : EqualFold(k, name)}

DecOk(v) == [ok |-> TRUE, v |-> v]

DecErr == [ok |-> FALSE, v |-> 0]

\* decodeString: only a string converts to a string field
decodeString(val) == IF val.t = "str" THEN DecOk(val.v) ELSE DecErr

\* decodeInt, decodeUint: only an int converts to an int64 or uint64 field
\* (the decoder never yields a negative int)
decodeInt(val) == IF val.t = "int" THEN DecOk(val.v) ELSE DecErr

\* decodeSlice into []string: a list whose elements are all strings
decodePath(val) ==
    IF val.t # "list" THEN DecErr
    ELSE IF \E k \in 1..Len(val.v) : val.v[k].t # "str" THEN DecErr
    ELSE DecOk([k \in 1..Len(val.v) |-> val.v[k].v])

RECURSIVE decodeField(_, _, _, _), decodeAs(_, _), decodeFileInfo(_)

\* decodeStruct into file: Path []string, Length uint64
decodeFile(val) ==
    IF val.t # "dict" THEN DecErr
    ELSE
    LET path   == decodeField(val.v, <<"P", "a", "t", "h">>, <<>>, "[]string")
        length == decodeField(val.v, <<"L", "e", "n", "g", "t", "h">>, 0, "uint64")
    IN  IF path.ok /\ length.ok
        THEN DecOk([Path |-> path.v, Length |-> length.v])
        ELSE DecErr

\* decodeSlice into []file
decodeFiles(val) ==
    IF val.t # "list" THEN DecErr
    ELSE IF \E k \in 1..Len(val.v) : ~decodeFile(val.v[k]).ok THEN DecErr
    ELSE DecOk([k \in 1..Len(val.v) |-> decodeFile(val.v[k]).v])

\* Decoder.decode: dispatch on the kind of the field
decodeAs(kind, val) ==
    IF kind = "string" THEN decodeString(val)
    ELSE IF kind \in {"int64", "uint64"} THEN decodeInt(val)
    ELSE IF kind = "[]string" THEN decodePath(val)
    ELSE IF kind = "fileInfo" THEN decodeFileInfo(val)
    ELSE decodeFiles(val)

\* one field of a struct: zero when no key names it
decodeField(raw, name, zero, kind) ==
    LET keys == FieldKeys(raw, name)
    IN  IF keys = {} THEN DecOk(zero)
        ELSE decodeAs(kind, raw[CHOOSE k \in keys : TRUE])

KeyName == <<"N", "a", "m", "e">>
KeyPieces == <<"P", "i", "e", "c", "e", "s">>
KeyPieceLength == <<"p", "i", "e", "c", "e", " ", "l", "e", "n", "g", "t", "h">>
KeyLength == <<"L", "e", "n", "g", "t", "h">>
KeyFilesField == <<"F", "i", "l", "e", "s">>
KeyAnnounce == <<"A", "n", "n", "o", "u", "n", "c", "e">>
KeyCreationDate == <<"c", "r", "e", "a", "t", "i", "o", "n", " ", "d", "a", "t", "e">>
KeyCreatedBy == <<"c", "r", "e", "a", "t", "e", "d", " ", "b", "y">>
KeyComment == <<"C", "o", "m", "m", "e", "n", "t">>

\* the zero values of singleFileInfo and multiFileInfo
ZeroSingle == [Name |-> <<>>, Pieces |-> <<>>, PieceLength |-> 0, Length |-> 0]

ZeroMulti == [Name |-> <<>>, Pieces |-> <<>>, PieceLength |-> 0, Files |-> <<>>]

\* mapstructure.Decode(info, &torrent.singleInfo)
singleFileInfo(info) ==
    LET name   == decodeField(info, KeyName, <<>>, "string")
        pieces == decodeField(info, KeyPieces, <<>>, "string")
        plen   == decodeField(info, KeyPieceLength, 0, "uint64")
        length == decodeField(info, KeyLength, 0, "uint64")
    IN  IF name.ok /\ pieces.ok /\ plen.ok /\ length.ok
        THEN DecOk([Name |-> name.v, Pieces |-> pieces.v,
                    PieceLength |-> plen.v, Length |-> length.v])
        ELSE DecErr

\* mapstructure.Decode(info, &torrent.multiInfo)
multiFileInfo(info) ==
    LET name   == decodeField(info, KeyName, <<>>, "string")
        pieces == decodeField(info, KeyPieces, <<>>, "string")
        plen   == decodeField(info, KeyPieceLength, 0, "uint64")
        files  == decodeField(info, KeyFilesField, <<>>, "[]file")
    IN  IF name.ok /\ pieces.ok /\ plen.ok /\ files.ok
        THEN DecOk([Name |-> name.v, Pieces |-> pieces.v,
                    PieceLength |-> plen.v, Files |-> files.v])
        ELSE DecErr

\* mapstructure.Decode(rawMetainfo, torrent): the exported fields of Torrent
\* other than InfoHash, which no key of the model's inputs names
decodeTorrent(raw) ==
    LET announce == decodeField(raw, KeyAnnounce, <<>>, "string")
        date     == decodeField(raw, KeyCreationDate, 0, "int64")
        by       == decodeField(raw, KeyCreatedBy, <<>>, "string")
        comment  == decodeField(raw, KeyComment, <<>>, "string")
    IN  IF announce.ok /\ date.ok /\ by.ok /\ comment.ok
        THEN DecOk([Announce |-> announce.v, CreationDate |-> date.v,
                    CreatedBy |-> by.v, Comment |-> comment.v])
        ELSE DecErr

\* decodeStruct into fileInfo, the Info field of MetaInfo
decodeFileInfo(val) ==
    IF val.t # "dict" THEN DecErr
    ELSE
    LET name   == decodeField(val.v, KeyName, <<>>, "string")
        length == decodeField(val.v, KeyLength, 0, "int64")
        plen   == decodeField(val.v, KeyPieceLength, 0, "int64")
        pieces == decodeField(val.v, KeyPieces, <<>>, "string")
    IN  IF name.ok /\ length.ok /\ plen.ok /\ pieces.ok
        THEN DecOk([Name |-> name.v, Pieces |-> pieces.v,
                    PieceLength |-> plen.v, Length |-> length.v])
        ELSE DecErr

KeyInfoField == <<"I", "n", "f", "o">>

\* mapstructure.Decode(rawMetaInfo, metaInfo): the exported fields of
\* MetaInfo other than InfoHash, which no key of the model's inputs names
decodeMetaInfo(raw) ==
    LET announce == decodeField(raw, KeyAnnounce, <<>>, "string")
        info     == decodeField(raw, KeyInfoField, ZeroSingle, "fileInfo")
        date     == decodeField(raw, KeyCreationDate, 0, "int64")
        by       == decodeField(raw, KeyCreatedBy, <<>>, "string")
        comment  == decodeField(raw, KeyComment, <<>>, "string")
    IN  IF announce.ok /\ info.ok /\ date.ok /\ by.ok /\ comment.ok
        THEN DecOk([Announce |-> announce.v, Info |-> info.v, CreationDate |-> date.v,
                    CreatedBy |-> by.v, Comment |-> comment.v])
        ELSE DecErr

\* sha1.Sum: the digest is kept as the text it was computed from, so two
\* digests are equal exactly when their inputs are
sha1Sum(text) == <<"sha1", text>>

NoHash == <<"sha1", <<>>>>

ZeroTorrent ==
    [Announce |-> <<>>, CreationDate |-> 0, CreatedBy |-> <<>>, Comment |-> <<>>]

\* what ParseTorrent returns: (nil, err), (torrent, nil), or a panic
TorrentErr(msg, cause) ==
    [st |-> "err", msg |-> msg, cause |-> cause, InfoHash |-> NoHash,
     fields |-> ZeroTorrent, singleFileMode |-> FALSE,
     singleInfo |-> ZeroSingle, multiInfo |-> ZeroMulti]

TorrentPanic ==
    [st |-> "panic", msg |-> "out of range", cause |-> Panic(0), InfoHash |-> NoHash,
     fields |-> ZeroTorrent, singleFileMode |-> FALSE,
     singleInfo |-> ZeroSingle, multiInfo |-> ZeroMulti]

NoTorrent ==
    [st |-> "none", msg |-> "", cause |-> Ok(NoVal, 0), InfoHash |-> NoHash,
     fields |-> ZeroTorrent, singleFileMode |-> FALSE,
     singleInfo |-> ZeroSingle, multiInfo |-> ZeroMulti]

KeyInfo == <<"i", "n", "f", "o">>
KeyFiles == <<"f", "i", "l", "e", "s">>

\* the mode test matching the key the way mapstructure matches field names
filesExistsFold(info) == \E k \in DOMAIN info : EqualFold(k, KeyFiles)

\* the mode test of ParseTorrent: _, filesExists := info["files"]
filesExists(info) == KeyFiles \in DOMAIN info

ZeroMetaInfo ==
    [Announce |-> <<>>, Info |-> ZeroSingle, CreationDate |-> 0,
     CreatedBy |-> <<>>, Comment |-> <<>>]

\* what ParseMetaInfo returns: (nil, err), (metaInfo, nil), or a panic
MetaInfoErr(msg, cause) ==
    [st |-> "err", msg |-> msg, cause |-> cause, InfoHash |-> NoHash,
     fields |-> ZeroMetaInfo]

MetaInfoPanic(msg, cause) ==
    [st |-> "panic", msg |-> msg, cause |-> cause, InfoHash |-> NoHash,
     fields |-> ZeroMetaInfo]

NoMetaInfo ==
    [st |-> "none", msg |-> "", cause |-> Ok(NoVal, 0), InfoHash |-> NoHash,
     fields |-> ZeroMetaInfo]

\* ParseMetaInfo(fileContents): every result it can return.  The type
\* assertion rawMetaInfo["info"].(map[string]any) panics when the key is
\* absent or bound to anything but a dictionary.
ParseMetaInfo(b) ==
    LET raw == parseDict(b, 0)
    IN  IF raw.st = "panic" THEN {MetaInfoPanic("out of range", raw)}
        ELSE IF raw.st = "err" THEN {MetaInfoErr("bad torrent file", raw)}
        ELSE
        LET top == decodeMetaInfo(raw.val.v)
        IN  IF ~top.ok THEN {MetaInfoErr("Malformed torrent file", raw)}
            ELSE IF KeyInfo \notin DOMAIN raw.val.v
            THEN {MetaInfoPanic("interface conversion", raw)}
            ELSE IF raw.val.v[KeyInfo].t # "dict"
            THEN {MetaInfoPanic("interface conversion", raw)}
            ELSE {[st |-> "ok", msg |-> "", cause |-> raw,
                   InfoHash |-> sha1Sum(bencInfo), fields |-> top.v] :
                  bencInfo \in encodeDict(raw.val.v[KeyInfo].v)}

\* ParseTorrent(fileContents): every result it can return; the results
\* differ in the order encodeDict ranged over the info dictionary
ParseTorrent(b) ==
    LET raw == parseDict(b, 0)
    IN  IF raw.st = "panic" THEN {TorrentPanic}
        ELSE IF raw.st = "err" THEN {TorrentErr("bad torrent file", raw)}
        ELSE
        LET top == decodeTorrent(raw.val.v)
        IN  IF ~top.ok THEN {TorrentErr("Malformed torrent file", raw)}
            ELSE IF KeyInfo \notin DOMAIN raw.val.v
            THEN {TorrentErr("No info field present in the torrent", raw)}
            ELSE IF raw.val.v[KeyInfo].t # "dict"
            THEN {TorrentErr("Info field must be a dictionary", raw)}
            ELSE
            LET info   == raw.val.v[KeyInfo].v
                multi  == filesExists(info)
                layout == IF multi THEN multiFileInfo(info) ELSE singleFileInfo(info)
            IN  IF ~layout.ok
                THEN {TorrentErr("Malformed multi-file info field", raw)}
                ELSE {[st |-> "ok", msg |-> "", cause |-> raw,
                       InfoHash |-> sha1Sum(bencInfo), fields |-> top.v,
                       singleFileMode |-> ~multi,
                       singleInfo |-> IF multi THEN ZeroSingle ELSE layout.v,
                       multiInfo |-> IF multi THEN layout.v ELSE ZeroMulti] :
                      bencInfo \in encodeDict(info)}

----------------------------------------------------------------------------
(* Inputs: the texts and the values the operations are applied to *)

MaxRawLen == 3
MaxBodyLen == 3
MaxStrLen == 3
MaxInt == 25
MaxListLen == 2
MaxSlack == 1
MaxTrail == 2

\* a byte above 0x7F
HighByte == "0xFF"

\* the bytes of the model in increasing byte value
ByteOrder ==
    <<NUL, " ", "-", "0", "1", "2", "3", "4", "5", "6", "7", "8", "9", ":",
      "A", "C", "F", "I", "L", "N", "P",
      "a", "b", "c", "d", "e", "f", "g", "h", "i", "j", "k", "l", "m", "n", "o",
      "p", "q", "r", "s", "t", "u", "v", "w", "x", "y", "z", HighByte>>

ByteRank(c) == CHOOSE k \in 1..Len(ByteOrder) : ByteOrder[k] = c

\* a < b in the lexicographic order of raw bytes
RECURSIVE BytesLess(_, _)
BytesLess(a, b) ==
    IF b = <<>> THEN FALSE
    ELSE IF a = <<>> THEN TRUE
    ELSE IF a[1] # b[1] THEN ByteRank(a[1]) < ByteRank(b[1])
    ELSE BytesLess(Tail(a), Tail(b))

\* the keys in increasing (up) or decreasing byte order
RECURSIVE SortedKeys(_, _)
SortedKeys(keys, up) ==
    IF keys = {} THEN <<>>
    ELSE
    LET first == CHOOSE k \in keys : \A o \in keys \ {k} :
                    IF up THEN BytesLess(k, o) ELSE BytesLess(o, k)
    IN  <<first>> \o SortedKeys(keys \ {first}, up)

\* the B-encoded text of a value with every dictionary's keys written in
\* increasing (the canonical form) or decreasing byte order
RECURSIVE TextOf(_, _), TextOfList(_, _, _), TextOfDict(_, _, _, _)
TextOfList(vals, k, up) ==
    IF k > Len(vals) THEN <<>>
    ELSE TextOf(vals[k], up) \o TextOfList(vals, k + 1, up)

TextOfDict(dict, order, k, up) ==
    IF k > Len(order) THEN <<>>
    ELSE encodeStr(order[k]) \o TextOf(dict[order[k]], up)
            \o TextOfDict(dict, order, k + 1, up)

TextOf(val, up) ==
    IF val.t = "int" THEN encodeInt(val.v)
    ELSE IF val.t = "str" THEN encodeStr(val.v)
    ELSE IF val.t = "list" THEN <<"l">> \o TextOfList(val.v, 1, up) \o <<"e">>
    ELSE <<"d">> \o TextOfDict(val.v, SortedKeys(DOMAIN val.v, up), 1, up) \o <<"e">>

Canonical(val) == TextOf(val, TRUE)

Prefixes(text) == {SubSeq(text, 1, n) : n \in 0..Len(text)}

SeqsUpTo(S, n) == UNION {[1..k -> S] : k \in 0..n}

\* the map with the given (key, value) pairs
DictOf(pairs) ==
    [k \in {p[1] : p \in pairs} |-> (CHOOSE p \in pairs : p[1] = k)[2]]

\* arbitrary bytes
RawBytes == {"d", "l", "i", "e", ":", "0", "1", "2", "-", "a"}

RawTexts == SeqsUpTo(RawBytes, MaxRawLen)

\* integer tokens with an arbitrary body
BodyBytes == {"0", "1", "3", "-", "a"}

IntTexts == {<<"i">> \o body \o <<"e">> : body \in SeqsUpTo(BodyBytes, MaxBodyLen)}

\* integers and strings handed to the encoder
SampleInts == (-MaxInt..MaxInt) \cup {100, 105, -100, 1000}

StrBytes == {":", "e", "1", "a", HighByte}

LongLens == {10, 12, 20}

SampleStrs ==
    SeqsUpTo(StrBytes, MaxStrLen)
        \cup {[k \in 1..n |-> c] : n \in LongLens, c \in {"a", ":"}}

\* containers, nested to depth 2
Atoms == {IntV(0), IntV(12), StrV(<<>>), StrV(<<"a", ":">>)}

Keys == {<<"a">>, <<"a", "b">>, <<"b">>}

Lists1 == {ListV(vals) : vals \in SeqsUpTo(Atoms, MaxListLen)}

Dicts1 == UNION {{DictV(dict) : dict \in [ks -> Atoms]} : ks \in SUBSET Keys}

Level1 == Lists1 \cup Dicts1

Level2 ==
    {ListV(<<x>>) : x \in Level1}
        \cup {DictV(DictOf({<<<<"a">>, x>>})) : x \in Level1}
        \cup {DictV(DictOf({<<<<"a">>, IntV(-3)>>, <<<<"b">>, x>>})) : x \in Lists1}

Containers == Level1 \cup Level2

\* texts in canonical form, and the same values with keys in decreasing order
CanonicalTexts ==
    {Canonical(v) : v \in Containers \cup Atoms \cup {IntV(-3), StrV(<<"e">>)}}

ReversedTexts == {TextOf(v, FALSE) : v \in Containers}

\* canonical texts cut short
TruncatedTexts == UNION {Prefixes(Canonical(v)) : v \in Level1 \cup {ListV(<<x>>) : x \in Level1}}

\* dictionaries with a token that is no string in key position, and
\* dictionaries whose last key is followed by the closing 'e'
NonStringTokens == {Canonical(v) : v \in {IntV(1), ListV(<<>>), DictV(EmptyDict)}}

PairTexts == {<<>>, <<"1", ":", "a", "i", "2", "e">>}

NonStringKeyTexts ==
    {<<"d">> \o before \o k \o v \o <<"e">> :
        before \in PairTexts, k \in NonStringTokens, v \in {<<>>, <<"i", "2", "e">>}}

MissingValueTexts ==
    {<<"d">> \o before \o <<"3", ":", "k", "e", "y", "e">> : before \in PairTexts}

BadKeyTexts == NonStringKeyTexts \cup MissingValueTexts

\* torrent files
HashLen == 20

LowerKey(key) == [k \in 1..Len(key) |-> ToLower(key[k])]

Opt(key, vals) == {{}} \cup {{<<key, v>>} : v \in vals}

FileEntry ==
    DictV(DictOf({<<<<"l", "e", "n", "g", "t", "h">>, IntV(3)>>,
                  <<<<"p", "a", "t", "h">>, ListV(<<StrV(<<"p">>)>>)>>}))

PiecesOpts ==
    Opt(LowerKey(KeyPieces),
        {StrV([k \in 1..n |-> "A"]) : n \in {1, HashLen}})

FilesOpts ==
    Opt(KeyFiles, {ListV(<<FileEntry>>)}) \cup Opt(KeyFilesField, {ListV(<<>>)})

InfoDicts ==
    {DictOf(n \cup l \cup pl \cup p \cup f) :
        n \in Opt(LowerKey(KeyName), {StrV(<<"n">>)}),
        l \in Opt(LowerKey(KeyLength), {IntV(7)}),
        pl \in Opt(KeyPieceLength, {IntV(4)}),
        p \in PiecesOpts,
        f \in FilesOpts}

Torrents ==
    {DictV(DictOf(a \cup i)) :
        a \in Opt(LowerKey(KeyAnnounce), {StrV(<<"u">>), IntV(7)}),
        i \in Opt(KeyInfo, {IntV(1)} \cup {DictV(d) : d \in InfoDicts})}

TorrentTexts == {TextOf(t, up) : t \in Torrents, up \in BOOLEAN}

\* bytes that follow the closing 'e' of a torrent file
TrailBytes == {"e", ":", "0", "d"}
Trailers == SeqsUpTo(TrailBytes, MaxTrail) \ {<<>>}

\* torrent files that are followed by trailing bytes
TrailInfos ==
    {DictOf(n \cup f) :
        n \in Opt(LowerKey(KeyName), {StrV(<<"n">>)}),
        f \in FilesOpts}

TrailBases ==
    {TextOf(DictV(DictOf(a \cup {<<KeyInfo, DictV(d)>>})), up) :
        a \in Opt(LowerKey(KeyAnnounce), {StrV(<<"u">>)}),
        d \in TrailInfos,
        up \in BOOLEAN}

TrailingTexts == {b \o t : b \in TrailBases, t \in Trailers}

Texts ==
    RawTexts \cup IntTexts \cup CanonicalTexts \cup ReversedTexts
        \cup TruncatedTexts \cup BadKeyTexts \cup TorrentTexts
        \cup TrailingTexts

Values ==
    {IntV(n) : n \in SampleInts} \cup {StrV(s) : s \in SampleStrs} \cup Level1

Slacks == SeqsUpTo({NUL}, MaxSlack)

----------------------------------------------------------------------------
(* The driver: a text is decoded, or projected, and a decoded value is     *)
(* encoded again; a value is encoded and the text decoded.                 *)

\* newParser(enc): the buffer with the cursor at 0
Buf == [enc |-> enc, slack |-> slack]

Init ==
    /\ slack \in Slacks
    /\ \/ enc \in Texts /\ src = NoVal /\ pc = "ready"
       \/ enc = <<>> /\ src \in Values /\ pc = "value"
    /\ op = "none"
    /\ res = Ok(NoVal, 0)
    /\ out = <<>>
    /\ torrent = NoTorrent
    /\ metaInfo = NoMetaInfo

Encoded(name, text) ==
    /\ enc' = text
    /\ op' = name
    /\ pc' = "ready"
    /\ UNCHANGED <<slack, src, res, out, torrent, metaInfo>>

EncodeInt == pc = "value" /\ src.t = "int" /\ Encoded("encodeInt", encodeInt(src.v))

EncodeStr == pc = "value" /\ src.t = "str" /\ Encoded("encodeStr", encodeStr(src.v))

EncodeList ==
    /\ pc = "value" /\ src.t = "list"
    /\ \E text \in encodeList(src.v) : Encoded("encodeList", text)

EncodeDict ==
    /\ pc = "value" /\ src.t = "dict"
    /\ \E text \in encodeDict(src.v) : Encoded("encodeDict", text)

Decoded(name, r) ==
    /\ res' = r
    /\ op' = name
    /\ pc' = "decoded"
    /\ UNCHANGED <<enc, slack, src, out, torrent, metaInfo>>

ParseStr == pc = "ready" /\ Decoded("parseStr", parseStr(Buf, 0))

ParseInt == pc = "ready" /\ Decoded("parseInt", parseInt(Buf, 0))

ParseList == pc = "ready" /\ Decoded("parseList", parseList(Buf, 0))

ParseDict == pc = "ready" /\ Decoded("parseDict", parseDict(Buf, 0))

ParseVal == pc = "ready" /\ Decoded("parseVal", parseVal(Buf, 0))

\* the decoded value is encoded again
Reencode ==
    /\ pc = "decoded" /\ res.st = "ok"
    /\ \E text \in encodeVal(res.val) : out' = text
    /\ pc' = "encoded"
    /\ UNCHANGED <<enc, slack, src, op, res, torrent, metaInfo>>

Project ==
    /\ pc = "ready" /\ src = NoVal
    /\ \E t \in ParseTorrent(Buf) : torrent' = t
    /\ op' = "ParseTorrent"
    /\ pc' = "projected"
    /\ UNCHANGED <<enc, slack, src, res, out, metaInfo>>

ProjectMetaInfo ==
    /\ pc = "ready" /\ src = NoVal
    /\ \E m \in ParseMetaInfo(Buf) : metaInfo' = m
    /\ op' = "ParseMetaInfo"
    /\ pc' = "described"
    /\ UNCHANGED <<enc, slack, src, res, out, torrent>>

Next ==
    \/ EncodeInt
    \/ EncodeStr
    \/ EncodeList
    \/ EncodeDict
    \/ ParseStr
    \/ ParseInt
    \/ ParseList
    \/ ParseDict
    \/ ParseVal
    \/ Reencode
    \/ Project
    \/ ProjectMetaInfo

Spec == Init /\ [][Next]_vars

----------------------------------------------------------------------------
(* Claims *)

\* the info dictionary ParseTorrent decoded, when it returned a descriptor
DecodedInfo == torrent.cause.val.v[KeyInfo].v

\* C1: round-trip law: for every canonical text b, encoding the value the
\* decoder returns for b yields b again, whatever order encodeDict ranges in.
C1_RoundTrip ==
    (pc = "encoded" /\ op = "parseVal" /\ src = NoVal /\ enc \in CanonicalTexts)
        => out = enc

\* C2: decoding never panics: every decoder call, on any input, returns a
\* value or an error and never indexes or slices outside the buffer.
C2_NeverPanics ==
    /\ pc = "decoded" => res.st \in {"ok", "err"}
    /\ pc = "projected" => torrent.st \in {"ok", "err"}

\* C3: info-hash determinism: every run of ParseTorrent on an input, and on
\* the input holding the same dictionaries with their keys in the other
\* order, computes the InfoHash this run computed.
C3_InfoHashDeterministic ==
    (pc = "projected" /\ torrent.st = "ok") =>
        \A up \in BOOLEAN :
            \A t \in ParseTorrent([enc |-> TextOf(torrent.cause.val, up), slack |-> slack]) :
                t.st = "ok" /\ t.InfoHash = torrent.InfoHash

\* C4: integer round trip: decoding encodeInt(n) succeeds and returns n, for
\* every n including zero and the negative values.
C4_IntRoundTrip ==
    (pc = "decoded" /\ op = "parseInt" /\ src.t = "int") =>
        (res.st = "ok" /\ res.val = src)

\* the forms of integer body C5 names
LeadingZeroBody(body) ==
    Len(body) >= 2 /\ body[1] = "0" /\ \A k \in 1..Len(body) : IsDigit(body[k])

NonDigitBody(body) ==
    \E k \in 1..Len(body) : ~IsDigit(body[k]) /\ ~(k = 1 /\ body[k] = "-")

NonCanonicalBody(body) ==
    \/ LeadingZeroBody(body)
    \/ body = <<"-", "0">>
    \/ body = <<>>
    \/ NonDigitBody(body)

IntBody == SubSeq(enc, 2, Len(enc) - 1)

\* C5: non-canonical integers are rejected: i<body>e with a leading zero
\* before more digits, -0, an empty body or a non-digit after an optional
\* leading '-' yields the "invalid integer value" error and no number.
C5_NonCanonicalRejected ==
    (pc = "decoded" /\ op = "parseInt" /\ enc \in IntTexts /\ NonCanonicalBody(IntBody))
        => (res.st = "err" /\ res.reason = "invalid integer value")

\* C6: string round trip: decoding encodeStr(s) succeeds, returns s and
\* leaves the cursor at the end of the encoded bytes, for every byte string s.
C6_StrRoundTrip ==
    (pc = "decoded" /\ op = "parseStr" /\ src.t = "str") =>
        (res.st = "ok" /\ res.val = src /\ res.i = Len(enc))

\* a string of ten ':' bytes, whose length takes two digits, came back
C6_Witness ==
    /\ pc = "decoded" /\ op = "parseStr" /\ src.t = "str"
    /\ Len(src.v) >= 10 /\ src.v[1] = ":"
    /\ res.st = "ok" /\ res.val = src /\ res.i = Len(enc)

\* the decoder's error for a list or dictionary opened at offset k that
\* never closed
UnmatchedAt(r, delim, k) ==
    /\ r.st = "err"
    /\ r.reason = "unmatched '" \o delim \o "' delimiter"
    /\ r.context = <<delim>>
    /\ r.pos = k + 1

\* the call the driver made is the decoder of the structure opened at 0
DecodesStructure ==
    /\ pc = "decoded" /\ enc # <<>>
    /\ \/ op = "parseVal" /\ enc[1] \in {"l", "d"}
       \/ op = "parseList" /\ enc[1] = "l"
       \/ op = "parseDict" /\ enc[1] = "d"

\* lists and dictionaries in canonical form cut short before their closing 'e'
UnclosedTexts ==
    UNION {Prefixes(Canonical(v)) \ {<<>>, Canonical(v)} :
            v \in Level1 \cup {ListV(<<x>>) : x \in Level1}}

EndsAtBoundary(b, k) ==
    LET closed == parseVal([enc |-> b.enc \o <<"e">>, slack |-> b.slack], k)
    IN  closed.st = "ok" /\ closed.i = Len(b.enc) + 1

C8_KeyErrorNamesDict ==
    (DecodesStructure /\ enc[1] = "d" /\ enc \in BadKeyTexts) =>
        (res.st = "err" /\ res.pos = 1 /\ res.context = <<"d">>)

\* C9: mode detection: a descriptor is in multi-file mode exactly when the
\* decoded info dictionary holds the key "files", whatever else it holds.
C9_ModeDetection ==
    (pc = "projected" /\ torrent.st = "ok") =>
        /\ ~torrent.singleFileMode <=> KeyFiles \in DOMAIN DecodedInfo
        /\ torrent.singleFileMode <=> KeyFiles \notin DOMAIN DecodedInfo
        /\ torrent.singleFileMode => torrent.multiInfo = ZeroMulti
        /\ ~torrent.singleFileMode => torrent.singleInfo = ZeroSingle

\* an info dictionary with both "files" and "length" projected to multi-file
C9_Witness ==
    /\ pc = "projected" /\ torrent.st = "ok"
    /\ ~torrent.singleFileMode
    /\ {KeyFiles, LowerKey(KeyLength)} \subseteq DOMAIN DecodedInfo
    /\ Len(torrent.multiInfo.Files) = 1

\* the pieces string of the descriptor ParseTorrent returned
DescriptorPieces ==
    IF torrent.singleFileMode THEN torrent.singleInfo.Pieces
    ELSE torrent.multiInfo.Pieces

\* C10: piece-hash length check: in both modes a pieces string whose length
\* is no multiple of 20 is rejected, so no descriptor holds one.
C10_PiecesLengthChecked ==
    (pc = "projected" /\ torrent.st = "ok"
        /\ LowerKey(KeyPieces) \in DOMAIN DecodedInfo) =>
        /\ Len(DecodedInfo[LowerKey(KeyPieces)].v) % HashLen = 0
        /\ Len(DescriptorPieces) % HashLen = 0


\* the top-level dictionary ParseMetaInfo decoded
DescribedTop == metaInfo.cause.val.v

\* the top-level dictionary ParseTorrent decoded
ProjectedTop == torrent.cause.val.v

\* the key "announce" is absent from the dictionary or bound to a non-string
AnnounceUnusable(top) ==
    \/ LowerKey(KeyAnnounce) \notin DOMAIN top
    \/ top[LowerKey(KeyAnnounce)].t # "str"

\* C11: announce is required: whenever the top-level dictionary decodes and
\* its key "announce" is absent or bound to a non-string value, ParseTorrent
\* returns an error and no descriptor.
C11_AnnounceRequired ==
    (pc = "projected" /\ torrent.cause.st = "ok" /\ AnnounceUnusable(ProjectedTop))
        => torrent.st = "err"

\* the key "info" is absent from the dictionary or bound to a non-dictionary
InfoUnusable(top) ==
    \/ KeyInfo \notin DOMAIN top
    \/ top[KeyInfo].t # "dict"

\* C12: info is required: whenever the top-level dictionary decodes and its
\* key "info" is absent or bound to a value that is not a dictionary,
\* projection (ParseTorrent, and likewise ParseMetaInfo) returns an error
\* value: it does not panic and returns no descriptor.
C12_InfoRequired ==
    /\ (pc = "projected" /\ torrent.cause.st = "ok" /\ InfoUnusable(ProjectedTop))
          => torrent.st = "err"
    /\ (pc = "described" /\ metaInfo.cause.st = "ok" /\ InfoUnusable(DescribedTop))
          => metaInfo.st = "err"

\* the keys the layout of an info dictionary requires
RequiredKeys(info) ==
    {LowerKey(KeyName), LowerKey(KeyPieceLength), LowerKey(KeyPieces)}
        \cup (IF filesExists(info) THEN {} ELSE {LowerKey(KeyLength)})

\* C13: required layout fields: whenever the info dictionary lacks a key its
\* layout requires (name, length, piece length or pieces in single-file
\* mode; name, piece length or pieces in multi-file mode), ParseTorrent
\* returns an error and no descriptor.
C13_RequiredLayoutFields ==
    (/\ pc = "projected" /\ torrent.cause.st = "ok"
     /\ ~InfoUnusable(ProjectedTop)
     /\ \E k \in RequiredKeys(DecodedInfo) : k \notin DOMAIN DecodedInfo)
        => torrent.st = "err"

\* the leading byte selects the string path of parseVal without being a digit
UnknownLeadingByte ==
    /\ enc # <<>>
    /\ enc[1] \notin {"d", "l", "i"}
    /\ ~IsDigit(enc[1])

\* C14: unknown leading byte: whenever the value parseVal decodes starts with
\* a byte that is none of 'd', 'l', 'i' or a digit, parseVal fails with the
\* "invalid string" error; it never succeeds and never reports another kind.
C14_UnknownLeadingByte ==
    (pc = "decoded" /\ op = "parseVal" /\ UnknownLeadingByte)
        => (res.st = "err" /\ res.reason = "invalid string")

\* the bytes ParseTorrent consumed: the top-level dictionary up to its 'e'
ConsumedPrefix == SubSeq(enc, 1, torrent.cause.i)

====
